---- MODULE Spec2Model ----
(***************************************************************************)
(* Model of src/Operation.h (namespace augmentorLib): the probabilistic    *)
(* operation framework (uniform generators, the probability gate) and the  *)
(* perform methods of the eleven concrete operations.                      *)
(*                                                                         *)
(* Representation.                                                         *)
(*  - A probability and a unit draw are numerators over UnitSteps: the     *)
(*    draw n stands for n / UnitSteps in [0,1), the probability p for      *)
(*    p / UnitSteps in [0,1].                                              *)
(*  - std::default_random_engine is implementation defined; it is modelled *)
(*    as a deterministic engine with full period over 0..UnitSteps-1.      *)
(*  - An image is [w, h, px] with px a function on (0..w-1) X (0..h-1);    *)
(*    a pixel is one 8-bit channel (the code treats channels alike).       *)
(*  - A size_t / uint64_t value is kept as the small signed integer that   *)
(*    is congruent to it modulo 2^64 (two's complement).                   *)
(***************************************************************************)
EXTENDS Integers, Sequences, FiniteSets, TLC

\* ---------------------------------------------------------------- bounds
MaxW == 3
MaxH == 3
MaxPixels == 6
MaxCalls == 2
UnitSteps == 4

\* ------------------------------------------------------ program constants
LOWER_BOUND_PROB == 0
UPPER_BOUND_PROB == UnitSteps
NULL_SEED == 0
HORIZONTAL == "Horizontal"
VERTICAL == "Vertical"

\* the channel values images are drawn from
PixelVals == {0, 255}
\* value of a pixel of a freshly constructed Image
UnsetPixel == 0
\* seeds a caller passes; NULL_SEED asks for a time-derived seed
Seeds == {0, 1, 2}

\* the function f itself, held as a table: each of its values is computed once
Table(f) == f @@ <<>>

Min(a, b) == IF a < b THEN a ELSE b
Max(a, b) == IF a > b THEN a ELSE b

\* ================================================================ Image
Coords(w, h) == (0 .. (w - 1)) \X (0 .. (h - 1))

\* Image(width, height): every pixel unset
NewImage(w, h) == [w |-> w, h |-> h, px |-> [c \in Coords(w, h) |-> UnsetPixel]]

InBounds(img, x, y) == x >= 0 /\ x < img.w /\ y >= 0 /\ y < img.h

getPixel(img, x, y) == img.px[<<x, y>>]

setPixel(img, x, y, v) == [img EXCEPT !.px[<<x, y>>] = v]

\* the images a caller passes: at least 1 x 1, at most MaxPixels pixels
Images ==
    UNION {[w : {d[1]}, h : {d[2]}, px : [Coords(d[1], d[2]) -> PixelVals]] :
              d \in {e \in (1 .. MaxW) \X (1 .. MaxH) : e[1] * e[2] <= MaxPixels}}

\* ==================================================== UniformDistributionGenerator
\* init_seed: a null seed is replaced by the clock, any value
init_seed(seed) == IF seed = NULL_SEED THEN 0 .. (UnitSteps - 1) ELSE {seed % UnitSteps}

\* one step of the engine
EngineNext(s) == (s + 1) % UnitSteps

\* operator(): advances the engine, returns the new draw
GenDraw(s) == [value |-> EngineNext(s), state |-> EngineNext(s)]

\* ================================================================ Operation
\* generator() <= probability, on the draw just made
GateFires(draw, probability) == draw <= probability

\* operate_this_time deciding on the value the generator last gave, without
\* drawing a new one
operate_this_time_stale(o) ==
    [fires |-> GateFires(o.generator, o.probability),
     draw  |-> o.generator,
     op    |-> o]

\* operate_this_time: one draw of the instance's unit generator
operate_this_time(o) ==
    LET d == GenDraw(o.generator)
    IN  [fires |-> GateFires(d.value, o.probability),
         draw  |-> d.value,
         op    |-> [o EXCEPT !.generator = d.state]]

\* uniform_random_number(): one more draw of the same generator
uniform_random_number(o) ==
    LET d == GenDraw(o.generator)
    IN  [value |-> d.value, op |-> [o EXCEPT !.generator = d.state]]

\* ============================================================ call outcomes
(* What one perform call leaves behind.  ret is the pointer returned       *)
(* ("image", "null", or "none" when the call did not return), err the way  *)
(* it ended ("none", "out_of_range" for the exception thrown, "crash" for  *)
(* a trap taken on undefined behaviour).  The rest is bookkeeping: the     *)
(* gate outcome and draw, the number of unit draws consumed, the           *)
(* parameters drawn, whether a pixel outside the image was accessed,       *)
(* whether the transform's loops ran, the branch taken (Flip), the box     *)
(* passes run and whether a division by zero was evaluated.  The log adds  *)
(* the image before and after and the unit engine's state before and after.*)
Returned(g, img) ==
    [op |-> g.op, image |-> img, ret |-> "image", err |-> "none",
     fired |-> g.fires, gate |-> g.draw, draws |-> 1, drawn |-> <<>>,
     oob |-> FALSE, ran |-> g.fires, branch |-> "", passes |-> <<>>,
     divzero |-> FALSE]

\* ========================================================= StdoutOperation
StdoutPerform(o, img) ==
    LET g == operate_this_time(o)
    IN  IF ~g.fires
        THEN {[Returned(g, img) EXCEPT !.ret = "null"]}
        ELSE {Returned(g, img)}

\* =========================================================== FlipOperation
\* the strings a read through the dangling reference can yield
DanglingReads == {HORIZONTAL, VERTICAL, "?"}

\* type is a reference member: bound to a temporary it dangles after the
\* constructor returns, and a read of it is undefined
FlipTypeRead(o) == IF o.typeLive THEN {o.type} ELSE DanglingReads

\* FlipHorizontal with the swap left half done: the right pixel is copied to
\* the left and the left one is not stored back
RECURSIVE FlipHorizontalOneWay(_, _, _)
FlipHorizontalOneWay(img, y, x) ==
    IF y >= img.h THEN img
    ELSE IF x >= img.w \div 2 THEN FlipHorizontalOneWay(img, y + 1, 0)
    ELSE FlipHorizontalOneWay(
             setPixel(img, x, y, getPixel(img, img.w - x - 1, y)), y, x + 1)

RECURSIVE FlipHorizontal(_, _, _)
FlipHorizontal(img, y, x) ==
    IF y >= img.h THEN img
    ELSE IF x >= img.w \div 2 THEN FlipHorizontal(img, y + 1, 0)
    ELSE LET left_pixels  == getPixel(img, x, y)
             right_pixels == getPixel(img, img.w - x - 1, y)
         IN  FlipHorizontal(
                 setPixel(setPixel(img, x, y, right_pixels),
                          img.w - x - 1, y, left_pixels),
                 y, x + 1)

RECURSIVE FlipVertical(_, _, _)
FlipVertical(img, y, x) ==
    IF y >= img.h \div 2 THEN img
    ELSE IF x >= img.w THEN FlipVertical(img, y + 1, 0)
    ELSE LET top_pixels    == getPixel(img, x, y)
             bottom_pixels == getPixel(img, x, img.h - y - 1)
         IN  FlipVertical(
                 setPixel(setPixel(img, x, y, bottom_pixels),
                          x, img.h - y - 1, top_pixels),
                 y, x + 1)

FlipPerform(o, img) ==
    LET g == operate_this_time(o)
    IN  IF ~g.fires THEN {Returned(g, img)}
        ELSE {IF t = HORIZONTAL
                THEN [Returned(g, FlipHorizontal(img, 0, 0)) EXCEPT !.branch = t]
              ELSE IF t = VERTICAL
                THEN [Returned(g, FlipVertical(img, 0, 0)) EXCEPT !.branch = t]
              ELSE [Returned(g, img) EXCEPT !.ret = "none", !.err = "out_of_range",
                                            !.branch = t]
              : t \in FlipTypeRead(o)}
          \cup (IF o.typeLive THEN {}
                ELSE {[Returned(g, img) EXCEPT !.ret = "none", !.err = "crash"]})

\* ========================================================= InvertOperation
InvertImage(img) == [img EXCEPT !.px = [c \in DOMAIN img.px |-> 255 - img.px[c]]]

InvertPerform(o, img) ==
    LET g == operate_this_time(o)
    IN  IF ~g.fires THEN {Returned(g, img)}
        ELSE {Returned(g, InvertImage(img))}

\* ========================================================== Image::resize
\* resize(newHeight, newWidth), in place: nearest-neighbour resampling
Resized(img, nh, nw) ==
    [w |-> nw, h |-> nh,
     px |-> [c \in Coords(nw, nh) |->
                img.px[<<(c[1] * img.w) \div nw, (c[2] * img.h) \div nh>>]]]

\* ========================================================= ResizeOperation
\* int v = (upper - lower) * factor + lower, the factor being draw / UnitSteps
Interpolate(lower, upper, draw) == lower + ((upper - lower) * draw) \div UnitSteps

ResizePerform(o, img) ==
    LET g == operate_this_time(o)
        f == uniform_random_number(g.op)
        height == Interpolate(o.lower.height, o.upper.height, f.value)
        width  == Interpolate(o.lower.width, o.upper.width, f.value)
    IN  IF ~g.fires THEN {Returned(g, img)}
        ELSE {[Returned(g, Resized(img, height, width)) EXCEPT
                  !.op = f.op, !.draws = 2, !.drawn = <<f.value>>]}

\* =========================================================== CropOperation
\* a < b on unsigned 64-bit values, each kept as its two's complement
U64Less(a, b) == IF (a < 0) = (b < 0) THEN a < b ELSE b < 0

\* the values i takes in  for (unsigned long i = start; i < start + len; i++)
LoopSpan(start, len) ==
    IF U64Less(start, start + len) THEN start .. (start + len - 1) ELSE {}

\* left_offset = w/2 - size.width/2 and down_offset = h/2 - size.height/2,
\* computed in size_t
CropOffsets(img, size) ==
    [left |-> img.w \div 2 - size.width \div 2,
     down |-> img.h \div 2 - size.height \div 2]

\* the source coordinates the copy loops pass to getPixel
CropReads(img, size) ==
    LoopSpan(CropOffsets(img, size).left, size.width)
        \X LoopSpan(CropOffsets(img, size).down, size.height)

\* those of them that lie outside the source image
CropOutside(img, size) ==
    {c \in CropReads(img, size) : ~InBounds(img, c[1], c[2])}

\* temp after the copy loops; junk gives what each read outside the image yields
CropCopy(img, size, junk) ==
    LET off  == CropOffsets(img, size)
        temp == NewImage(size.width, size.height)
    IN  [temp EXCEPT !.px =
            [c \in DOMAIN temp.px |->
                LET s == <<c[1] + off.left, c[2] + off.down>>
                IN  IF s \notin CropReads(img, size) THEN UnsetPixel
                    ELSE IF InBounds(img, s[1], s[2]) THEN img.px[s]
                    ELSE junk[s]]]

CropPerform(o, img) ==
    LET g   == operate_this_time(o)
        out == CropOutside(img, o.size)
    IN  IF ~g.fires THEN {Returned(g, img)}
        ELSE IF ~o.center
        THEN {Returned(g, NewImage(o.size.width, o.size.height))}
        ELSE {[Returned(g, CropCopy(img, o.size, junk)) EXCEPT !.oob = (out # {})]
                 : junk \in [out -> PixelVals]}
             \cup (IF out = {} THEN {}
                   ELSE {[Returned(g, img) EXCEPT !.ret = "none", !.err = "crash",
                                                  !.oob = TRUE]})

\* CropOperation(size, center, prob, seed): the instances the constructor can build
CropOperation(size, center, prob, seed) ==
    {[kind |-> "Crop", probability |-> prob, seed |-> seed, generator |-> s,
      size |-> size, center |-> center] : s \in init_seed(seed)}

\* =========================================================== ZoomOperation
\* zoom_level in tenths: uniform_random_number(min, max) truncated to one decimal
ZoomTenths(factor, draw) ==
    ((factor.max_factor - factor.min_factor) * draw + factor.min_factor * UnitSteps)
        \div UnitSteps

ZoomPerform(o, img) ==
    LET g == operate_this_time(o)
        f == uniform_random_number(g.op)
        zoom_level == ZoomTenths(o.factor, f.value)
        w_zoomed == (img.w * zoom_level) \div 10
        h_zoomed == (img.h * zoom_level) \div 10
        zoomed == Resized(img, h_zoomed, w_zoomed)
        operations == CropOperation([height |-> img.h, width |-> img.w], TRUE,
                                    UPPER_BOUND_PROB, NULL_SEED)
    IN  IF ~g.fires THEN {Returned(g, img)}
        ELSE {[Returned(g, c.image) EXCEPT
                  !.op = f.op, !.draws = 2, !.drawn = <<zoom_level>>,
                  !.ret = c.ret, !.err = c.err, !.oob = c.oob,
                  !.ran = c.fired]
              : c \in UNION {CropPerform(operation, zoomed) : operation \in operations}}

\* ========================================================= RotateOperation
\* cos and sin of a multiple of 90 degrees (with PI 3.14159 the products
\* differ from these by less than 1e-4, which round() removes)
Cos90(deg) == CASE deg % 360 = 0 -> 1 [] deg % 360 = 180 -> -1 [] OTHER -> 0

Sin90(deg) == CASE deg % 360 = 90 -> 1 [] deg % 360 = 270 -> -1 [] OTHER -> 0

\* uniform_random_number(min_rotate, max_rotate)
RotateDegree(range, draw) ==
    ((range.max_rotate - range.min_rotate) * draw + range.min_rotate * UnitSteps)
        \div UnitSteps

RotateImage(img, deg) ==
    LET hwidth == img.w \div 2
        hheight == img.h \div 2
    IN  [img EXCEPT !.px =
            [c \in DOMAIN img.px |->
                LET xt == c[1] - hwidth
                    yt == c[2] - hheight
                    xs == Cos90(deg) * xt - Sin90(deg) * yt + hwidth
                    ys == Sin90(deg) * xt + Cos90(deg) * yt + hheight
                IN  IF InBounds(img, xs, ys) THEN img.px[<<xs, ys>>] ELSE UnsetPixel]]

RotatePerform(o, img) ==
    LET g == operate_this_time(o)
        f == uniform_random_number(g.op)
        rotate_degree == RotateDegree(o.range, f.value)
    IN  IF ~g.fires THEN {Returned(g, img)}
        ELSE {[Returned(g, RotateImage(img, rotate_degree)) EXCEPT
                  !.op = f.op, !.draws = 2, !.drawn = <<rotate_degree>>]}

\* =================================================== GaussianBlurOperation
\* gaussian_blur_filter_1D: filter[k] is w[k + 1] / den, size() is Len(w)
GaussKernels ==
    {[w |-> <<4>>, den |-> 4], [w |-> <<2, 2>>, den |-> 4],
     [w |-> <<1, 2, 1>>, den |-> 4]}

\* ClampTap folding the tap back into the line instead of stopping it at the edge
ClampTapAround(t, n) == t % n

\* the clamped tap  std::min((size_t) std::max(x0, 0l), dimension - 1)
ClampTap(t, n) == Min(Max(t, 0), n - 1)

\* the taps one pass makes on a line of n pixels: for the position pos and the
\* filter index k, the coordinate x0 asked for and the coordinate passed to getPixel
GaussLineTaps(n, filter) ==
    {[raw |-> pos - (Len(filter.w) \div 2) + k,
      used |-> ClampTap(pos - (Len(filter.w) \div 2) + k, n)]
        : pos \in 0 .. (n - 1), k \in 0 .. (Len(filter.w) - 1)}

\* the pixels getPixel is asked for: image(x, j) by the first pass, image(i, y)
\* by the second
GaussReads(img, filter) ==
    {<<t.used, j>> : t \in GaussLineTaps(img.w, filter), j \in 0 .. (img.h - 1)}
        \cup {<<i, t.used>> : i \in 0 .. (img.w - 1), t \in GaussLineTaps(img.h, filter)}

\* the pixels setPixel is given: transient(i, j), then image(i, j)
GaussWrites(img) == (0 .. (img.w - 1)) \X (0 .. (img.h - 1))

\* val accumulated over the taps k .. size-1 of the window that starts at t0
RECURSIVE GaussSum(_, _, _, _, _)
GaussSum(line, n, filter, t0, k) ==
    IF k >= Len(filter.w) THEN 0
    ELSE line[ClampTap(t0 + k, n)] * filter.w[k + 1]
             + GaussSum(line, n, filter, t0, k + 1)

\* convert2pixel of the accumulated val: a double narrowed to uint8_t
GaussPixel(line, n, filter, pos) ==
    GaussSum(line, n, filter, pos - (Len(filter.w) \div 2), 0) \div filter.den

\* first pass: transient(i, j) from the taps image(x, j) along the width
GaussTransient(img, filter) ==
    [img EXCEPT !.px =
        [c \in DOMAIN img.px |->
            GaussPixel([x \in 0 .. (img.w - 1) |-> img.px[<<x, c[2]>>]],
                       img.w, filter, c[1])]]

\* second pass on column i, rows j and below: reads image(i, y) and writes
\* image(i, j) in the same buffer
RECURSIVE GaussColumn(_, _, _, _)
GaussColumn(col, n, filter, j) ==
    IF j >= n THEN col
    ELSE GaussColumn([col EXCEPT ![j] = GaussPixel(col, n, filter, j)],
                     n, filter, j + 1)

GaussianBlurImage(img, filter) ==
    LET cols == Table([i \in 0 .. (img.w - 1) |->
                    GaussColumn([y \in 0 .. (img.h - 1) |-> img.px[<<i, y>>]],
                                img.h, filter, 0)])
    IN  [img EXCEPT !.px = [c \in DOMAIN img.px |-> cols[c[1]][c[2]]]]

GaussianBlurPerform(o, img) ==
    LET g == operate_this_time(o)
    IN  IF ~g.fires THEN {Returned(g, img)}
        ELSE {Returned(g, GaussianBlurImage(img, o.filter))}

\* ============================================================= accumulator
\* from p = <<(x / d) mod 256, x mod d>> the same pair for x * x
SquareDivMod(p, d) ==
    <<(p[1] * p[1] * d + 2 * p[1] * p[2] + (p[2] * p[2]) \div d) % 256,
      (p[2] * p[2]) % d>>

\* <<(2^64 / d) mod 256, 2^64 mod d>>, by squaring 2^16 twice
Pow64DivMod(d) ==
    SquareDivMod(SquareDivMod(<<(65536 \div d) % 256, 65536 % d>>, d), d)

\* div on one channel: values[i] / denominator, a uint64_t quotient narrowed
\* to u_int8_t; z is what a division by zero yields when it does not trap
AccDiv(v, denominator, z) ==
    IF denominator = 0 THEN z
    ELSE IF v >= 0 THEN (v \div denominator) % 256
    ELSE (Pow64DivMod(denominator)[1]
             + (Pow64DivMod(denominator)[2] + v) \div denominator) % 256

\* ======================================================== BoxBlurOperation
\* BoxWindow with the loop test k <= length: one tap too many is summed
RECURSIVE BoxWindowLong(_, _, _, _)
BoxWindowLong(line, n, length, k) ==
    IF k > length THEN 0
    ELSE line[Min(Max(-(length \div 2) + k, 0), n - 1)]
             + BoxWindowLong(line, n, length, k + 1)

\* the first loop: the sum of the taps k .. length-1 of the window of position 0
RECURSIVE BoxWindow(_, _, _, _)
BoxWindow(line, n, length, k) ==
    IF k >= length THEN 0
    ELSE line[ClampTap(-(length \div 2) + k, n)] + BoxWindow(line, n, length, k + 1)

\* y_del and y_add when the second loop is at position j
BoxDel(length, j) == -(length \div 2) + (j - 1)

BoxAdd(length, j) == (length \div 2) + 1 + (j - 1)

\* prev = std::max(y_del, 0l) and next = std::min(y_add, dimension - 1)
BoxPrev(length, j) == Max(BoxDel(length, j), 0)

BoxNext(n, length, j) == Min(BoxAdd(length, j), n - 1)

\* the second loop from position j on: shift the window, divide, store
RECURSIVE BoxSlide(_, _, _, _, _, _, _)
BoxSlide(line, n, length, j, acc, out, z) ==
    IF j >= n THEN out
    ELSE LET prev == BoxPrev(length, j)
             next == BoxNext(n, length, j)
             shifted == acc + line[next] - line[prev]
         IN  BoxSlide(line, n, length, j + 1, shifted,
                      [out EXCEPT ![j] = AccDiv(shifted, length, z)], z)

\* one scan line: out holds the destination line before the pass
BoxLine(line, n, length, out, z) ==
    LET acc == BoxWindow(line, n, length, 0)
        first == IF length > 0 THEN [out EXCEPT ![0] = AccDiv(acc, length, z)]
                 ELSE out
    IN  BoxSlide(line, n, length, 1, acc, first, z)

BoxBlurImage(img, length, z) ==
    LET transient ==
            Table([i \in 0 .. (img.w - 1) |->
                BoxLine([y \in 0 .. (img.h - 1) |-> img.px[<<i, y>>]], img.h, length,
                        [y \in 0 .. (img.h - 1) |-> UnsetPixel], z)])
        rows ==
            Table([j \in 0 .. (img.h - 1) |->
                BoxLine([x \in 0 .. (img.w - 1) |-> transient[x][j]], img.w, length,
                        [x \in 0 .. (img.w - 1) |-> img.px[<<x, j>>]], z)])
    IN  [img EXCEPT !.px = [c \in DOMAIN img.px |-> rows[c[2]][c[1]]]]

\* the taps the two loops make on a line of n pixels: the coordinate asked for
\* (y0, y_del, y_add) and the coordinate passed to getPixel
BoxLineTaps(n, length) ==
    {[raw |-> -(length \div 2) + k, used |-> ClampTap(-(length \div 2) + k, n)]
        : k \in 0 .. (length - 1)}
    \cup {[raw |-> BoxDel(length, j), used |-> BoxPrev(length, j)] : j \in 1 .. (n - 1)}
    \cup {[raw |-> BoxAdd(length, j), used |-> BoxNext(n, length, j)] : j \in 1 .. (n - 1)}

\* the pixels getPixel is asked for: image(i, y) by the first pass,
\* transient(x, j) by the second
BoxReads(img, length) ==
    {<<i, t.used>> : i \in 0 .. (img.w - 1), t \in BoxLineTaps(img.h, length)}
        \cup {<<t.used, j>> : t \in BoxLineTaps(img.w, length), j \in 0 .. (img.h - 1)}

\* the pixels setPixel is given: transient(i, 0) and transient(i, j), then
\* image(0, j) and image(i, j)
BoxWrites(img, length) ==
    {<<i, 0>> : i \in {x \in 0 .. (img.w - 1) : length > 0}}
        \cup ((0 .. (img.w - 1)) \X (1 .. (img.h - 1)))
        \cup {<<0, j>> : j \in {y \in 0 .. (img.h - 1) : length > 0}}
        \cup ((1 .. (img.w - 1)) \X (0 .. (img.h - 1)))

\* a division is evaluated by the first loop when length > 0 and by the
\* second loop when the scan line has a second position
BoxDividesByZero(img, length) == length = 0 /\ (img.h >= 2 \/ img.w >= 2)

\* what values[i] / 0 leaves in the pixel on a build where it does not trap
DivZeroResults == {0, 255}

BoxBlurPerform(o, img) ==
    LET g == operate_this_time(o)
    IN  IF ~g.fires THEN {Returned(g, img)}
        ELSE IF BoxDividesByZero(img, o.length)
        THEN {[Returned(g, BoxBlurImage(img, o.length, z)) EXCEPT !.divzero = TRUE]
                 : z \in DivZeroResults}
             \cup {[Returned(g, img) EXCEPT !.ret = "none", !.err = "crash",
                                            !.divzero = TRUE]}
        ELSE {Returned(g, BoxBlurImage(img, o.length, 0))}

\* BoxBlurOperation(filter, prob, seed): the instances the constructor can build
BoxBlurOperation(n, prob, seed) ==
    {[kind |-> "BoxBlur", probability |-> prob, seed |-> seed, generator |-> s,
      length |-> n] : s \in init_seed(seed)}

\* ==================================================== RandomEraseOperation
RECURSIVE EngineAdvance(_, _)
EngineAdvance(s, n) == IF n = 0 THEN s ELSE EngineAdvance(EngineNext(s), n - 1)

\* a draw of the noise generator as a channel value
NoiseValue(v) == (v * 255) \div (UnitSteps - 1)

\* EraseOffset with the erase size left out of the modulus
EraseOffsetAnywhere(draw, dimension, erase) == draw % (dimension + 1)

\* xy_generator() % (dimension - erase + 1)
EraseOffset(draw, dimension, erase) == draw % (dimension - erase + 1)

RandomErasePerform(o, img) ==
    LET g == operate_this_time(o)
        lower_erase_size == [height |-> Min(img.h, o.lower_mask_size.height),
                             width  |-> Min(img.w, o.lower_mask_size.width)]
        upper_erase_size == [height |-> Min(img.h, o.upper_mask_size.height),
                             width  |-> Min(img.w, o.upper_mask_size.width)]
        f == uniform_random_number(g.op)
        erase_size ==
            [height |-> ((upper_erase_size.height - lower_erase_size.height) * f.value)
                            \div UnitSteps + lower_erase_size.height,
             width  |-> ((upper_erase_size.width - lower_erase_size.width) * f.value)
                            \div UnitSteps + lower_erase_size.width]
        d1 == GenDraw(o.xy_generator)
        top == EraseOffset(d1.value, img.h, erase_size.height)
        d2 == GenDraw(d1.state)
        left == EraseOffset(d2.value, img.w, erase_size.width)
        \* the pixel (i, j) takes the draw number (i - left) * height + (j - top) + 1
        noise(i, j) ==
            NoiseValue(EngineAdvance(o.noise_generator,
                           (i - left) * erase_size.height + (j - top) + 1))
        erased ==
            [img EXCEPT !.px =
                [c \in DOMAIN img.px |->
                    IF /\ c[1] \in LoopSpan(left, erase_size.width)
                       /\ c[2] \in LoopSpan(top, erase_size.height)
                    THEN noise(c[1], c[2]) ELSE img.px[c]]]
    IN  IF ~g.fires THEN {Returned(g, img)}
        ELSE {[Returned(g, erased) EXCEPT
                  !.op = [f.op EXCEPT
                             !.xy_generator = d2.state,
                             !.noise_generator =
                                 EngineAdvance(o.noise_generator,
                                     erase_size.width * erase_size.height)],
                  !.draws = 2,
                  !.oob = (left + erase_size.width > img.w
                              \/ top + erase_size.height > img.h),
                  !.drawn = <<erase_size.height, erase_size.width, top, left>>]}

\* =============================================== FastGaussianBlurOperation
\* the loop  for (auto operation : box_blur_operations) image = operation.perform(image)
\* from pass k on; run carries the image, the way the loop ended and the passes made
RECURSIVE FastGaussianPasses(_, _, _)
FastGaussianPasses(operations, k, run) ==
    IF k > Len(operations) \/ run.err # "none" THEN {run}
    ELSE UNION {FastGaussianPasses(operations, k + 1,
                    [image |-> c.image, err |-> c.err, divzero |-> run.divzero \/ c.divzero,
                     passes |-> Append(run.passes,
                                    [length |-> operations[k].length, fired |-> c.fired,
                                     input |-> run.image, output |-> c.image])])
                : c \in BoxBlurPerform(operations[k], run.image)}

FastGaussianBlurPerform(o, img) ==
    LET g == operate_this_time(o)
    IN  IF ~g.fires THEN {Returned(g, img)}
        ELSE {[Returned(g, r.image) EXCEPT
                  !.err = r.err, !.ret = IF r.err = "none" THEN "image" ELSE "none",
                  !.passes = r.passes, !.divzero = r.divzero]
              : r \in FastGaussianPasses(o.box_blur_operations, 1,
                          [image |-> img, err |-> "none", divzero |-> FALSE,
                           passes |-> <<>>])}

\* ============================================================ constructors
\* Each gives the instances the constructor can build: a null seed leaves the
\* engine's start to the clock.
StdoutOperation(prob, seed) ==
    {[kind |-> "Stdout", probability |-> prob, seed |-> seed, generator |-> s]
        : s \in init_seed(seed)}

ResizeOperation(lower, upper, prob, seed) ==
    {[kind |-> "Resize", probability |-> prob, seed |-> seed, generator |-> s,
      lower |-> lower, upper |-> upper] : s \in init_seed(seed)}

RotateOperation(range, prob, seed) ==
    {[kind |-> "Rotate", probability |-> prob, seed |-> seed, generator |-> s,
      range |-> range] : s \in init_seed(seed)}

ZoomOperation(factor, prob, seed) ==
    {[kind |-> "Zoom", probability |-> prob, seed |-> seed, generator |-> s,
      factor |-> factor] : s \in init_seed(seed)}

\* live: the string passed outlives the operation (otherwise type dangles)
FlipOperation(type, live, prob, seed) ==
    {[kind |-> "Flip", probability |-> prob, seed |-> seed, generator |-> s,
      type |-> type, typeLive |-> live] : s \in init_seed(seed)}

InvertOperation(prob, seed) ==
    {[kind |-> "Invert", probability |-> prob, seed |-> seed, generator |-> s]
        : s \in init_seed(seed)}

GaussianBlurOperation(filter, prob, seed) ==
    {[kind |-> "GaussianBlur", probability |-> prob, seed |-> seed, generator |-> s,
      filter |-> filter] : s \in init_seed(seed)}

\* BoxBlurOperations with every pass given a probability of its own below 1
RECURSIVE BoxBlurOperationsGated(_)
BoxBlurOperationsGated(filters) ==
    IF filters = <<>> THEN {<<>>}
    ELSE {<<b>> \o rest : b \in BoxBlurOperation(Head(filters), UnitSteps \div 2, NULL_SEED),
                          rest \in BoxBlurOperationsGated(Tail(filters))}

\* the sequences of operations BoxBlurOperation(filter) can build for a schedule
RECURSIVE BoxBlurOperations(_)
BoxBlurOperations(filters) ==
    IF filters = <<>> THEN {<<>>}
    ELSE {<<b>> \o rest : b \in BoxBlurOperation(Head(filters), UPPER_BOUND_PROB, NULL_SEED),
                          rest \in BoxBlurOperations(Tail(filters))}

\* filters: the lengths pseudo_gaussian_filter(sigma, passes) returns
FastGaussianBlurOperation(filters, prob, seed) ==
    {[kind |-> "FastGaussianBlur", probability |-> prob, seed |-> seed, generator |-> s,
      box_blur_operations |-> ops]
        : s \in init_seed(seed), ops \in BoxBlurOperations(filters)}

RandomEraseOperation(lower_mask_size, upper_mask_size, prob, seed, xy_seed, noise_seed) ==
    {[kind |-> "RandomErase", probability |-> prob, seed |-> seed, generator |-> s,
      xy_seed |-> xy_seed, xy_generator |-> xy,
      noise_seed |-> noise_seed, noise_generator |-> nz,
      lower_mask_size |-> lower_mask_size, upper_mask_size |-> upper_mask_size]
        : s \in init_seed(seed), xy \in init_seed(xy_seed), nz \in init_seed(noise_seed)}

\* virtual dispatch of perform
Perform(o, img) ==
    CASE o.kind = "Stdout" -> StdoutPerform(o, img)
      [] o.kind = "Resize" -> ResizePerform(o, img)
      [] o.kind = "Crop" -> CropPerform(o, img)
      [] o.kind = "Rotate" -> RotatePerform(o, img)
      [] o.kind = "Zoom" -> ZoomPerform(o, img)
      [] o.kind = "Flip" -> FlipPerform(o, img)
      [] o.kind = "Invert" -> InvertPerform(o, img)
      [] o.kind = "GaussianBlur" -> GaussianBlurPerform(o, img)
      [] o.kind = "BoxBlur" -> BoxBlurPerform(o, img)
      [] o.kind = "FastGaussianBlur" -> FastGaussianBlurPerform(o, img)
      [] o.kind = "RandomErase" -> RandomErasePerform(o, img)

\* ================================================================== state
VARIABLES
    op,      \* the operation instance under perform
    image,   \* the image the caller holds
    ret,     \* what the last perform returned: "none", "image" or "null"
    err,     \* how the last perform ended: "none", "out_of_range" or "crash"
    log,     \* one record per perform call made on op, oldest first
    twin     \* at most one second instance, [op, image, log], run alongside op

vars == <<op, image, ret, err, log, twin>>

\* the record a call on the instance o with the image pre leaves in the log
Entry(c, o, pre) ==
    [pre |-> pre, post |-> c.image, ret |-> c.ret, err |-> c.err, fired |-> c.fired,
     engine |-> <<o.generator, c.op.generator>>,
     gate |-> c.gate, draws |-> c.draws, drawn |-> c.drawn, oob |-> c.oob,
     ran |-> c.ran, branch |-> c.branch, passes |-> c.passes, divzero |-> c.divzero]

\* a caller makes a call on an instance that has not failed, with a non-empty image
CanCall == err = "none" /\ Len(log) < MaxCalls /\ image.w >= 1 /\ image.h >= 1

\* the call  image = op.perform(image)  with one of its outcomes
Call(outcomes) ==
    /\ CanCall
    /\ \E c \in outcomes :
          /\ op' = c.op
          /\ image' = c.image
          /\ ret' = c.ret
          /\ err' = c.err
          /\ log' = Append(log, Entry(c, op, image))
    /\ UNCHANGED twin

PerformStdout == op.kind = "Stdout" /\ Call(StdoutPerform(op, image))

PerformResize == op.kind = "Resize" /\ Call(ResizePerform(op, image))

PerformCrop == op.kind = "Crop" /\ Call(CropPerform(op, image))

PerformRotate == op.kind = "Rotate" /\ Call(RotatePerform(op, image))

PerformZoom == op.kind = "Zoom" /\ Call(ZoomPerform(op, image))

PerformFlip == op.kind = "Flip" /\ Call(FlipPerform(op, image))

PerformInvert == op.kind = "Invert" /\ Call(InvertPerform(op, image))

PerformGaussianBlur == op.kind = "GaussianBlur" /\ Call(GaussianBlurPerform(op, image))

PerformBoxBlur == op.kind = "BoxBlur" /\ Call(BoxBlurPerform(op, image))

PerformFastGaussianBlur ==
    op.kind = "FastGaussianBlur" /\ Call(FastGaussianBlurPerform(op, image))

PerformRandomErase == op.kind = "RandomErase" /\ Call(RandomErasePerform(op, image))

\* --------------------------------------------------------- parameter sets
Probs == {LOWER_BOUND_PROB, UnitSteps \div 2, UPPER_BOUND_PROB}

Size(hh, ww) == [height |-> hh, width |-> ww]

Sizes(hs, ws) == {Size(hh, ww) : hh \in hs, ww \in ws}

FlipTypes == {HORIZONTAL, VERTICAL, "Diagonal"}

StartsWith(ops, images) ==
    /\ op \in ops
    /\ image \in images
    /\ ret = "none"
    /\ err = "none"
    /\ log = <<>>
    /\ twin = <<>>

\* ------------------------------------------- every operation, every image
AllOperations ==
    UNION {
        StdoutOperation(p, sd)
        \cup ResizeOperation(Size(1, 1), Size(MaxH, MaxW), p, sd)
        \cup ResizeOperation(Size(0, 0), Size(0, 0), p, sd)
        \cup UNION {CropOperation(Size(n, n), TRUE, p, sd) : n \in 0 .. MaxW}
        \cup CropOperation(Size(2, 1), FALSE, p, sd)
        \cup RotateOperation([min_rotate |-> 90, max_rotate |-> 90], p, sd)
        \cup RotateOperation([min_rotate |-> 180, max_rotate |-> 180], p, sd)
        \cup ZoomOperation([min_factor |-> 5, max_factor |-> 5], p, sd)
        \cup ZoomOperation([min_factor |-> 10, max_factor |-> 20], p, sd)
        \cup UNION {FlipOperation(t, TRUE, p, sd) : t \in FlipTypes}
        \cup FlipOperation(HORIZONTAL, FALSE, p, sd)
        \cup InvertOperation(p, sd)
        \cup UNION {GaussianBlurOperation(f, p, sd) : f \in GaussKernels}
        \cup UNION {BoxBlurOperation(n, p, sd) : n \in {0, 2, 3}}
        \cup FastGaussianBlurOperation(<<3>>, p, sd)
        \cup RandomEraseOperation(Size(1, 1), Size(2, 2), p, sd, 1, 2)
        : p \in Probs, sd \in Seeds}

Init == StartsWith(AllOperations, Images)

Next ==
    \/ PerformStdout
    \/ PerformResize
    \/ PerformCrop
    \/ PerformRotate
    \/ PerformZoom
    \/ PerformFlip
    \/ PerformInvert
    \/ PerformGaussianBlur
    \/ PerformBoxBlur
    \/ PerformFastGaussianBlur
    \/ PerformRandomErase

Spec == Init /\ [][Next]_vars

\* ------------------------------------------------- the box blur family
\* the lengths of box kernels, up to longer than any image
KernelLengths == 1 .. (MaxH + 1)

\* the schedules of box lengths a fast Gaussian blur is built from
Schedules == {<<1>>, <<3>>, <<2, 3>>, <<3, 1>>, <<3, 3>>}

BoxOperations ==
    UNION {BoxBlurOperation(n, p, 1) : n \in KernelLengths \cup {0},
                                       p \in {LOWER_BOUND_PROB, UPPER_BOUND_PROB}}
    \cup UNION {FastGaussianBlurOperation(f, p, sd) : f \in Schedules, p \in Probs,
                                                      sd \in {1}}

InitBox == StartsWith(BoxOperations, Images)

NextBox == PerformBoxBlur \/ PerformFastGaussianBlur

SpecBox == InitBox /\ [][NextBox]_vars

\* --------------------------------------------- Flip and RandomErase
MaskBounds ==
    {b \in Sizes(0 .. MaxH, 0 .. MaxW) \X Sizes(0 .. MaxH, 0 .. MaxW) :
        b[1].height <= b[2].height /\ b[1].width <= b[2].width}

GridOperations ==
    UNION {FlipOperation(t, live, p, 2) : t \in FlipTypes, live \in BOOLEAN,
                                          p \in {UPPER_BOUND_PROB, UnitSteps \div 2}}
    \cup UNION {RandomEraseOperation(b[1], b[2], UPPER_BOUND_PROB, 1, xs, 3)
                   : b \in MaskBounds, xs \in {0, 1}}

InitGrid == StartsWith(GridOperations, Images)

NextGrid == PerformFlip \/ PerformRandomErase

SpecGrid == InitGrid /\ [][NextGrid]_vars

\* ------------------------------- targets and kernels of every size, gate open
SizeOperations ==
    UNION {CropOperation(sz, c, UPPER_BOUND_PROB, 1)
              : sz \in Sizes(0 .. (MaxH + 1), 0 .. (MaxW + 1)), c \in BOOLEAN}
    \cup UNION {ZoomOperation([min_factor |-> f[1], max_factor |-> f[2]],
                              UPPER_BOUND_PROB, sd)
                   : f \in {<<5, 5>>, <<5, 20>>, <<10, 10>>, <<15, 20>>}, sd \in Seeds}
    \cup UNION {ResizeOperation(b[1], b[2], UPPER_BOUND_PROB, sd)
                   : b \in {<<Size(0, 0), Size(0, 0)>>, <<Size(0, 1), Size(0, MaxW)>>,
                            <<Size(1, 1), Size(MaxH, MaxW)>>},
                     sd \in Seeds}
    \cup BoxBlurOperation(0, UPPER_BOUND_PROB, 1)
    \cup BoxBlurOperation(1, UPPER_BOUND_PROB, 1)

InitSize == StartsWith(SizeOperations, Images)

NextSize == PerformCrop \/ PerformZoom \/ PerformResize \/ PerformBoxBlur

SpecSize == InitSize /\ [][NextSize]_vars

\* ------------------------- two instances built by the same constructor call
\* the instances the constructor call that built o can build
Rebuilt(o) ==
    CASE o.kind = "Stdout" -> StdoutOperation(o.probability, o.seed)
      [] o.kind = "Resize" -> ResizeOperation(o.lower, o.upper, o.probability, o.seed)
      [] o.kind = "Crop" -> CropOperation(o.size, o.center, o.probability, o.seed)
      [] o.kind = "Rotate" -> RotateOperation(o.range, o.probability, o.seed)
      [] o.kind = "Zoom" -> ZoomOperation(o.factor, o.probability, o.seed)
      [] o.kind = "Flip" -> FlipOperation(o.type, o.typeLive, o.probability, o.seed)
      [] o.kind = "Invert" -> InvertOperation(o.probability, o.seed)
      [] o.kind = "GaussianBlur" -> GaussianBlurOperation(o.filter, o.probability, o.seed)
      [] o.kind = "BoxBlur" -> BoxBlurOperation(o.length, o.probability, o.seed)
      [] o.kind = "FastGaussianBlur" ->
            FastGaussianBlurOperation(
                [k \in DOMAIN o.box_blur_operations |-> o.box_blur_operations[k].length],
                o.probability, o.seed)
      [] o.kind = "RandomErase" ->
            RandomEraseOperation(o.lower_mask_size, o.upper_mask_size, o.probability,
                                 o.seed, o.xy_seed, o.noise_seed)

TwinOperations ==
    UNION {
        StdoutOperation(p, sd)
        \cup ResizeOperation(Size(1, 1), Size(MaxH, MaxW), p, sd)
        \cup CropOperation(Size(1, 1), TRUE, p, sd)
        \cup RotateOperation([min_rotate |-> 180, max_rotate |-> 180], p, sd)
        \cup ZoomOperation([min_factor |-> 10, max_factor |-> 20], p, sd)
        \cup FlipOperation(HORIZONTAL, TRUE, p, sd)
        \cup InvertOperation(p, sd)
        \cup GaussianBlurOperation([w |-> <<1, 2, 1>>, den |-> 4], p, sd)
        \cup BoxBlurOperation(3, p, sd)
        \cup FastGaussianBlurOperation(<<3>>, p, sd)
        \cup RandomEraseOperation(Size(1, 1), Size(2, 2), p, sd, 2, 3)
        : p \in {UnitSteps \div 2, UPPER_BOUND_PROB}, sd \in {NULL_SEED, 1}}
    \cup RandomEraseOperation(Size(1, 1), Size(2, 2), UPPER_BOUND_PROB, 1,
                              NULL_SEED, NULL_SEED)

InitTwin ==
    /\ op \in TwinOperations
    /\ image \in Images
    /\ ret = "none"
    /\ err = "none"
    /\ log = <<>>
    /\ twin \in {<<[op |-> o, image |-> image, log |-> <<>>]>> : o \in Rebuilt(op)}

\* the caller passes the image it holds to both instances, each call after
\* the other
PerformBoth ==
    /\ CanCall
    /\ \E c \in Perform(op, image), d \in Perform(twin[1].op, image) :
          /\ op' = c.op
          /\ image' = c.image
          /\ ret' = c.ret
          /\ err' = c.err
          /\ log' = Append(log, Entry(c, op, image))
          /\ twin' = <<[op |-> d.op, image |-> d.image,
                        log |-> Append(twin[1].log, Entry(d, twin[1].op, image))]>>

NextTwin == PerformBoth

SpecTwin == InitTwin /\ [][NextTwin]_vars

\* ================================================================= claims
\* the calls made so far whose gate fired, and those whose gate failed
\* ------------------------------------ the two direct blurs, every kernel
BlurOperations ==
    UNION {BoxBlurOperation(n, p, sd) : n \in KernelLengths,
                                        p \in {UnitSteps \div 2, UPPER_BOUND_PROB},
                                        sd \in {1, 2}}
    \cup UNION {GaussianBlurOperation(f, p, sd) : f \in GaussKernels,
                                                  p \in {UnitSteps \div 2, UPPER_BOUND_PROB},
                                                  sd \in {1, 2}}

InitBlur == StartsWith(BlurOperations, Images)

NextBlur == PerformBoxBlur \/ PerformGaussianBlur

SpecBlur == InitBlur /\ [][NextBlur]_vars

Fired == {i \in DOMAIN log : log[i].fired}

Skipped == {i \in DOMAIN log : ~log[i].fired}

\* C1: for every concrete operation, a perform call whose probability gate
\* fails returns the original image itself, with every pixel and both
\* dimensions unchanged, and never a null result.
SkipReturnsOriginal ==
    \A i \in Skipped :
        log[i].ret = "image" /\ log[i].err = "none" /\ log[i].post = log[i].pre

\* C2: the gate fires on every invocation when the probability is 1.0 and on
\* no invocation when it is 0.0, whatever the unit generator draws in [0,1),
\* a draw of exactly 0 included.
GateExtremes ==
    \A i \in DOMAIN log :
        /\ op.probability = UPPER_BOUND_PROB => log[i].fired
        /\ op.probability = LOWER_BOUND_PROB => ~log[i].fired

\* the centred rectangle of the crop target does not fit the source
CropExceeds(size, img) == size.width > img.w \/ size.height > img.h

\* the calls whose centred crop is asked for more than its source holds: a Crop
\* with center set, or the crop inside a Zoom that drew a factor below 1
OversizedCrops ==
    {i \in Fired :
        \/ op.kind = "Crop" /\ op.center /\ CropExceeds(op.size, log[i].pre)
        \/ op.kind = "Zoom" /\ log[i].drawn[1] < 10}

\* C5: a centred crop whose rectangle exceeds the source image raises a bounds
\* error and accesses no pixel outside the image; so does the crop inside Zoom
\* when the zoom factor is below 1.
OversizedCropRaises ==
    \A i \in OversizedCrops : log[i].err = "out_of_range" /\ ~log[i].oob

\* a box kernel of length zero, or a crop or resize target with a dimension
\* that is not positive
Degenerate(o) ==
    \/ o.kind = "BoxBlur" /\ o.length = 0
    \/ o.kind = "Crop" /\ (o.size.width <= 0 \/ o.size.height <= 0)
    \/ o.kind = "Resize" /\ (o.upper.width <= 0 \/ o.upper.height <= 0)

\* C10: an operation with a degenerate parameter is rejected with an error no
\* later than its first perform: it never runs its transform and never
\* reaches a division by a zero kernel length.
DegenerateRejected ==
    Degenerate(op) =>
        \A i \in Fired :
            /\ log[i].err \notin {"none", "crash"}
            /\ ~log[i].divzero
            /\ log[i].post = log[i].pre

\* the box convolution computed directly: every output position sums anew the
\* k clamped taps of its window and divides by k, truncating
RECURSIVE NaiveTaps(_, _, _, _)
NaiveTaps(line, n, first, k) ==
    IF k = 0 THEN 0
    ELSE line[IF first < 0 THEN 0 ELSE IF first > n - 1 THEN n - 1 ELSE first]
             + NaiveTaps(line, n, first + 1, k - 1)

NaiveLine(line, n, k) ==
    Table([pos \in 0 .. (n - 1) |-> NaiveTaps(line, n, pos - k \div 2, k) \div k])

NaiveBoxBlur(img, k) ==
    LET down == Table([x \in 0 .. (img.w - 1) |->
                    NaiveLine([y \in 0 .. (img.h - 1) |-> img.px[<<x, y>>]], img.h, k)])
        across == Table([y \in 0 .. (img.h - 1) |->
                      NaiveLine([x \in 0 .. (img.w - 1) |-> down[x][y]], img.w, k)])
    IN  [img EXCEPT !.px = [c \in DOMAIN img.px |-> across[c[2]][c[1]]]]

\* C3: for every image and every kernel length k >= 1, odd or even, BoxBlur
\* with the gate firing produces exactly the pixels of the naive two-pass box
\* convolution with clamp-to-edge taps and truncating division by k.
BoxMatchesNaive ==
    op.kind = "BoxBlur" /\ op.length >= 1 =>
        \A i \in Fired : log[i].post = NaiveBoxBlur(log[i].pre, op.length)

IsConstant(img) == \A c, d \in DOMAIN img.px : img.px[c] = img.px[d]

\* C6: box-blurring a constant image with the gate firing returns the same
\* constant image, for every kernel length k >= 1 and every image size.
FlatFieldKept ==
    op.kind = "BoxBlur" /\ op.length >= 1 =>
        \A i \in Fired : IsConstant(log[i].pre) => log[i].post = log[i].pre

\* a 2 x 3 image of 255s went through a box blur of even length 4, longer than
\* either dimension
FlatFieldBlurred ==
    /\ op.kind = "BoxBlur"
    /\ op.length = 4
    /\ \E i \in Fired :
          /\ log[i].pre.w = 2 /\ log[i].pre.h = 3
          /\ \A c \in DOMAIN log[i].pre.px : log[i].pre.px[c] = 255

\* C8: FastGaussianBlur evaluates its gate once per call; when it fires, all
\* passes of the schedule run in schedule order, none skipped by a gate of its
\* own, each on the output of the one before; when it fails, no pass runs.
PassesChained ==
    op.kind = "FastGaussianBlur" =>
        \A i \in DOMAIN log :
            LET e == log[i]
                n == Len(op.box_blur_operations)
            IN  /\ e.engine[2] = EngineNext(e.engine[1])
                /\ ~e.fired => e.passes = <<>> /\ e.post = e.pre
                /\ e.fired =>
                      /\ Len(e.passes) = n
                      /\ \A k \in 1 .. n :
                            /\ e.passes[k].length = op.box_blur_operations[k].length
                            /\ e.passes[k].fired
                            /\ e.passes[k].input =
                                   IF k = 1 THEN e.pre ELSE e.passes[k - 1].output
                            /\ e.passes[k].output =
                                   BoxBlurImage(e.passes[k].input, e.passes[k].length, 0)
                      /\ e.post = IF n = 0 THEN e.pre ELSE e.passes[n].output

\* a fired call ran two passes and each of them changed the image
TwoPassesRan ==
    /\ op.kind = "FastGaussianBlur"
    /\ \E i \in Fired :
          /\ Len(log[i].passes) = 2
          /\ \A k \in 1 .. 2 : log[i].passes[k].output # log[i].passes[k].input

\* C7: a horizontal flip puts the source pixel of column width-1-x at column
\* x in every row, a vertical flip that of row height-1-y at row y, and two
\* flips of the same kind in a row give back the original grid.
FlipInvolutive ==
    op.kind = "Flip" =>
        \A i \in Fired :
            LET e == log[i]
            IN  /\ e.branch = HORIZONTAL =>
                      /\ e.post.w = e.pre.w /\ e.post.h = e.pre.h
                      /\ \A c \in DOMAIN e.pre.px :
                            e.post.px[c] = e.pre.px[<<e.pre.w - 1 - c[1], c[2]>>]
                /\ e.branch = VERTICAL =>
                      /\ e.post.w = e.pre.w /\ e.post.h = e.pre.h
                      /\ \A c \in DOMAIN e.pre.px :
                            e.post.px[c] = e.pre.px[<<c[1], e.pre.h - 1 - c[2]>>]
                /\ (i + 1) \in Fired /\ e.branch \in {HORIZONTAL, VERTICAL}
                       /\ log[i + 1].branch = e.branch
                   => log[i + 1].post = e.pre

\* two horizontal flips in a row were made on an image of odd width 3 that is
\* not its own mirror image
FlippedTwice ==
    /\ op.kind = "Flip"
    /\ {1, 2} \subseteq Fired
    /\ log[1].branch = HORIZONTAL /\ log[2].branch = HORIZONTAL
    /\ log[1].pre.w = 3
    /\ log[1].post # log[1].pre

\* C9: RandomErase with the gate firing and lower <= upper picks a rectangle
\* inside the image, of a size between the clamped bounds, writes no pixel
\* outside it and keeps the dimensions.
EraseContained ==
    op.kind = "RandomErase" =>
        \A i \in Fired :
            LET e == log[i]
                height == e.drawn[1]
                width == e.drawn[2]
                top == e.drawn[3]
                left == e.drawn[4]
            IN  /\ left >= 0 /\ left + width <= e.pre.w
                /\ top >= 0 /\ top + height <= e.pre.h
                /\ Min(e.pre.h, op.lower_mask_size.height) <= height
                /\ height <= Min(e.pre.h, op.upper_mask_size.height)
                /\ Min(e.pre.w, op.lower_mask_size.width) <= width
                /\ width <= Min(e.pre.w, op.upper_mask_size.width)
                /\ ~e.oob
                /\ e.post.w = e.pre.w /\ e.post.h = e.pre.h
                /\ \A c \in DOMAIN e.pre.px :
                      ~(c[1] \in left .. (left + width - 1)
                            /\ c[2] \in top .. (top + height - 1))
                          => e.post.px[c] = e.pre.px[c]

\* a rectangle away from the left edge and smaller than the image was erased,
\* and a pixel in it changed
ErasedInside ==
    /\ op.kind = "RandomErase"
    /\ \E i \in Fired :
          /\ log[i].drawn[4] > 0
          /\ log[i].drawn[1] >= 1 /\ log[i].drawn[2] >= 1
          /\ log[i].drawn[1] * log[i].drawn[2] < log[i].pre.w * log[i].pre.h
          /\ log[i].post # log[i].pre

\* C4: two instances of one operation type built with the same parameters and
\* the same nonzero seed, run over the same sequence of images, have the same
\* gate outcomes and the same drawn parameters, hence the same output images.
SeedDeterminism ==
    twin # <<>> /\ op.seed # NULL_SEED =>
        \A i \in DOMAIN log :
            /\ twin[1].log[i].fired = log[i].fired
            /\ twin[1].log[i].drawn = log[i].drawn
            /\ twin[1].log[i].post = log[i].post

\* C11: perform on a Flip whose type is neither "Horizontal" nor "Vertical"
\* fails with the unknown-type error (the exception of FlipOperation::perform)
\* on every invocation, the image being left as it was.
UnknownFlipRejected ==
    op.kind = "Flip" /\ op.type \notin {HORIZONTAL, VERTICAL} =>
        \A i \in DOMAIN log :
            /\ log[i].err = "out_of_range"
            /\ log[i].ret = "none"
            /\ log[i].post = log[i].pre

\* the convolution along one axis into a transient buffer, then of the
\* transient along the other axis into the output
SeparableGauss(img, filter) ==
    LET transient == GaussTransient(img, filter)
    IN  [img EXCEPT !.px =
            [c \in DOMAIN img.px |->
                GaussPixel([y \in 0 .. (img.h - 1) |-> transient.px[<<c[1], y>>]],
                           img.h, filter, c[2])]]

\* C12: GaussianBlur with the gate firing is a separable convolution: the
\* second pass convolves the transient buffer of the first pass along the
\* other axis into the output, reading no pixel it has overwritten.
GaussIsSeparable ==
    op.kind = "GaussianBlur" =>
        \A i \in Fired : log[i].post = SeparableGauss(log[i].pre, op.filter)

\* the in-bounds coordinate nearest to t on an axis of n pixels
NearestInside(t, n) == IF t < 0 THEN 0 ELSE IF t > n - 1 THEN n - 1 ELSE t

\* the taps a fired blur makes on the two axes of its input, each with its axis length
BlurTaps(o, img) ==
    IF o.kind = "BoxBlur"
    THEN {<<t, img.h>> : t \in BoxLineTaps(img.h, o.length)}
             \cup {<<t, img.w>> : t \in BoxLineTaps(img.w, o.length)}
    ELSE {<<t, img.h>> : t \in GaussLineTaps(img.h, o.filter)}
             \cup {<<t, img.w>> : t \in GaussLineTaps(img.w, o.filter)}

BlurAccesses(o, img) ==
    IF o.kind = "BoxBlur"
    THEN BoxReads(img, o.length) \cup BoxWrites(img, o.length)
    ELSE GaussReads(img, o.filter) \cup GaussWrites(img)

\* C14: in BoxBlur and GaussianBlur with a kernel length >= 1, every pixel
\* read and written lies inside [0,width) x [0,height), and every tap is
\* taken at the in-bounds coordinate nearest to the one asked for.
ClampToEdge ==
    \/ op.kind = "BoxBlur" /\ op.length >= 1
    \/ op.kind = "GaussianBlur"
    => \A i \in Fired :
           /\ BlurAccesses(op, log[i].pre) \subseteq DOMAIN log[i].pre.px
           /\ \A a \in BlurTaps(op, log[i].pre) : a[1].used = NearestInside(a[1].raw, a[2])

\* a box blur ran with a kernel longer than the image is wide, on an image at
\* least 2 wide, and asked for taps beyond both ends of a row
KernelOverhangs ==
    /\ op.kind = "BoxBlur"
    /\ \E i \in Fired :
          /\ log[i].err = "none"
          /\ log[i].pre.w >= 2
          /\ op.length > log[i].pre.w
          /\ \E t \in BoxLineTaps(log[i].pre.w, op.length) : t.raw < 0
          /\ \E t \in BoxLineTaps(log[i].pre.w, op.length) : t.raw > log[i].pre.w - 1

\* the draws a fired call makes from the unit generator after the gate draw:
\* the one uniform_random_number of Resize, Rotate, Zoom and RandomErase
ParameterDraws(o) ==
    IF o.kind \in {"Resize", "Rotate", "Zoom", "RandomErase"} THEN 1 ELSE 0

\* C13: every perform call takes one draw of the instance's unit generator
\* for the gate, before any parameter draw and whether or not the gate fires;
\* a call whose gate fails takes that draw alone, and a fired call the fixed
\* number of parameter draws of its operation besides, each call starting
\* where the call before left the generator.
GateDrawFirst ==
    \A i \in DOMAIN log :
        LET e == log[i]
        IN  /\ e.gate = GenDraw(e.engine[1]).value
            /\ e.fired = GateFires(e.gate, op.probability)
            /\ ~e.fired => e.engine[2] = EngineNext(e.engine[1])
            /\ e.fired =>
                  e.engine[2] = EngineAdvance(e.engine[1], 1 + ParameterDraws(op))
            /\ i > 1 => e.engine[1] = log[i - 1].engine[2]
            /\ i = Len(log) => op.generator = e.engine[2]

\* a Resize fired, drawing its factor after the gate draw, and the next call
\* on it was skipped
SkipAfterFire ==
    /\ op.kind = "Resize"
    /\ Len(log) >= 2
    /\ log[1].fired /\ log[1].drawn # <<>>
    /\ ~log[2].fired
    /\ log[2].engine[2] = EngineAdvance(log[1].engine[1], 3)

====
